---------------------------- MODULE Spec2Model ----------------------------
(***************************************************************************)
(* A model of infojobs_campaign_analyst.py: the loader, the column         *)
(* normaliser, the metric calculator and the reporter, run in the order    *)
(* main() runs them.                                                       *)
(*                                                                         *)
(* A cell of the table is a pair <<n, d>>: the rational n/d when d > 0,    *)
(* NaN (pandas' null) when n = d = 0, and +inf / -inf when d = 0 and       *)
(* n = 1 / n = -1, which is what pandas' division yields on a zero         *)
(* denominator.  Arithmetic is exact; floating-point rounding is not       *)
(* modelled.  Text cells (campaign names, notes) are opaque codes.         *)
(***************************************************************************)
EXTENDS Integers, Sequences, FiniteSets, TLC

VARIABLES
    pc,        \* position of main(), or of the function under test
    file,      \* the input file: readable or not, its headers and rows
    columns,   \* df.columns, in order
    rows,      \* the rows of df, each aligned with columns
    err,       \* the uncaught exception, if any
    summary,   \* what print_overall_summary computed
    ranking,   \* what the last show_top_bottom call listed
    diagnosis  \* what print_detailed_recommendations / diagnose_row produced

vars == <<pc, file, columns, rows, err, summary, ranking, diagnosis>>

----------------------------------------------------------------------------
(* Bounds of the model.                                                    *)

MaxRows == 2
MaxHeaders == 2

----------------------------------------------------------------------------
(* Numbers.                                                                *)

R(n) == <<n, 1>>
Q(n, d) == <<n, d>>
NaN == <<0, 0>>
PosInf == <<1, 0>>
NegInf == <<-1, 0>>
Zero == R(0)

IsNaN(v) == v = NaN
IsFinite(v) == v[2] > 0

Abs(n) == IF n < 0 THEN -n ELSE n

RECURSIVE Gcd(_, _)
Gcd(a, b) == IF b = 0 THEN a ELSE Gcd(b, a % b)

Reduce(n, d) ==
    LET s == IF d < 0 THEN -1 ELSE 1
        g == Gcd(Abs(n), Abs(d))
    IN  <<(s * n) \div g, (s * d) \div g>>

\* pandas' (numpy's) float division: x/0 is +-inf, 0/0 and NaN/x are NaN.
Div(a, b) ==
    IF ~IsFinite(a) \/ ~IsFinite(b) THEN NaN
    ELSE IF b[1] = 0
         THEN (IF a[1] = 0 THEN NaN ELSE IF a[1] > 0 THEN PosInf ELSE NegInf)
         ELSE Reduce(a[1] * b[2], a[2] * b[1])

Add(a, b) ==
    IF ~IsFinite(a) \/ ~IsFinite(b) THEN NaN
    ELSE Reduce(a[1] * b[2] + b[1] * a[2], a[2] * b[2])

Mul(a, b) ==
    IF ~IsFinite(a) \/ ~IsFinite(b) THEN NaN
    ELSE Reduce(a[1] * b[1], a[2] * b[2])

\* Comparisons with NaN are False, as in Python.
Lt(a, b) == IsFinite(a) /\ IsFinite(b) /\ a[1] * b[2] < b[1] * a[2]
Gt(a, b) == Lt(b, a)

----------------------------------------------------------------------------
(* Strings: str.lower() and str.strip() on the ASCII headers of the model. *)

UpperChars == "ABCDEFGHIJKLMNOPQRSTUVWXYZ"
LowerChars == "abcdefghijklmnopqrstuvwxyz"

CharAt(s, i) == SubSeq(s, i, i)

LowerChar(c) ==
    IF \E i \in 1..Len(UpperChars) : CharAt(UpperChars, i) = c
    THEN LET i == CHOOSE j \in 1..Len(UpperChars) : CharAt(UpperChars, j) = c
         IN  CharAt(LowerChars, i)
    ELSE c

RECURSIVE Lower(_)
Lower(s) ==
    IF Len(s) = 0 THEN ""
    ELSE LowerChar(CharAt(s, 1)) \o Lower(SubSeq(s, 2, Len(s)))

RECURSIVE Strip(_)
Strip(s) ==
    IF Len(s) = 0 THEN ""
    ELSE IF CharAt(s, 1) = " " THEN Strip(SubSeq(s, 2, Len(s)))
    ELSE IF CharAt(s, Len(s)) = " " THEN Strip(SubSeq(s, 1, Len(s) - 1))
    ELSE s

\* Python's  sub in s
In(sub, s) ==
    \E i \in 1..(Len(s) - Len(sub) + 1) : SubSeq(s, i, i + Len(sub) - 1) = sub

----------------------------------------------------------------------------
(* normalise_columns                                                       *)

CanonicalNames == {"campaign", "imps", "clicks", "leads", "cost", "ctr", "cvr", "cpa"}

Low(col) == Lower(Strip(col))

IsCampaignHeader(low) == In("line item", low) \/ In("campaign", low) \/ In("puesto", low)
IsImpsHeader(low) == In("imp", low)
IsClicksHeader(low) == In("click", low)
IsLeadsHeader(low) == In("lead", low) \/ In("candid", low) \/ In("application", low)

IsCostHeader_NoCosto(low) ==
    \/ In("total cost", low)
    \/ ((In("cost", low) \/ In("gasto", low)) /\ In("total", low))
    \/ low = "cost"

IsCostHeader(low) ==
    \/ In("total cost", low)
    \/ ((In("cost", low) \/ In("gasto", low)) /\ In("total", low))
    \/ low = "cost"
    \/ low = "costo"

\* The clicks and leads rules with their canonical names exchanged.
NormaliseName_Swapped(col) ==
    LET low == Low(col)
    IN  IF IsCampaignHeader(low) THEN "campaign"
        ELSE IF IsImpsHeader(low) THEN "imps"
        ELSE IF IsClicksHeader(low) THEN "leads"
        ELSE IF IsLeadsHeader(low) THEN "clicks"
        ELSE IF IsCostHeader(low) THEN "cost"
        ELSE IF low = "ctr" THEN "ctr"
        ELSE IF low = "cvr" THEN "cvr"
        ELSE IF low = "cpa" THEN "cpa"
        ELSE col

\* col_map[col] when a rule matches col, and col itself (rename leaves it) otherwise.
NormaliseName(col) ==
    LET low == Low(col)
    IN  IF IsCampaignHeader(low) THEN "campaign"
        ELSE IF IsImpsHeader(low) THEN "imps"
        ELSE IF IsClicksHeader(low) THEN "clicks"
        ELSE IF IsLeadsHeader(low) THEN "leads"
        ELSE IF IsCostHeader(low) THEN "cost"
        ELSE IF low = "ctr" THEN "ctr"
        ELSE IF low = "cvr" THEN "cvr"
        ELSE IF low = "cpa" THEN "cpa"
        ELSE col

Rename(cols) == [i \in 1..Len(cols) |-> NormaliseName(cols[i])]

----------------------------------------------------------------------------
(* The table.                                                              *)

HasColumn(cols, name) == \E i \in 1..Len(cols) : cols[i] = name
ColumnIndex(cols, name) == CHOOSE i \in 1..Len(cols) : cols[i] = name
Cell(cols, row, name) == row[ColumnIndex(cols, name)]
Column(cols, rws, name) == [r \in 1..Len(rws) |-> Cell(cols, rws[r], name)]
AddColumn(rws, vals) == [r \in 1..Len(rws) |-> Append(rws[r], vals[r])]

----------------------------------------------------------------------------
(* compute_metrics                                                         *)

\* Series.where(cond, other): the value where cond holds, other elsewhere.
Where(v, cond, other) == IF cond THEN v ELSE other

DeriveCtr_NoGuard(clicks, imps) == Div(clicks, imps)

DeriveCtr(clicks, imps) == Where(Div(clicks, imps), Gt(imps, Zero), Zero)

DeriveCvr(leads, clicks) == Where(Div(leads, clicks), Gt(clicks, Zero), Zero)

DeriveCpa_NoGuard(cost, leads) == Div(cost, leads)

DeriveCpa_ZeroFill(cost, leads) == Where(Div(cost, leads), Gt(leads, Zero), Zero)

DeriveCpa(cost, leads) == Where(Div(cost, leads), Gt(leads, Zero), NaN)

\* The last test without its "not".
MissingRequired_LeadsPresent(cols) ==
    ~HasColumn(cols, "imps") \/ ~HasColumn(cols, "clicks") \/ HasColumn(cols, "leads")

MissingRequired(cols) ==
    ~HasColumn(cols, "imps") \/ ~HasColumn(cols, "clicks") \/ ~HasColumn(cols, "leads")

\* The column names the ValueError's message spells out.
ValueErrorNames == {"imps", "clicks", "leads"}

WithCtr(t) ==
    IF HasColumn(t.columns, "ctr") THEN t
    ELSE [columns |-> Append(t.columns, "ctr"),
          rows |-> AddColumn(t.rows,
                      [r \in 1..Len(t.rows) |->
                          DeriveCtr(Cell(t.columns, t.rows[r], "clicks"),
                                    Cell(t.columns, t.rows[r], "imps"))])]

WithCvr(t) ==
    IF HasColumn(t.columns, "cvr") THEN t
    ELSE [columns |-> Append(t.columns, "cvr"),
          rows |-> AddColumn(t.rows,
                      [r \in 1..Len(t.rows) |->
                          DeriveCvr(Cell(t.columns, t.rows[r], "leads"),
                                    Cell(t.columns, t.rows[r], "clicks"))])]

\* df['cpa'] assigned whenever there is a cost column, over a cpa column the
\* table already has.
WithCpa_Overwrite(t) ==
    IF ~HasColumn(t.columns, "cost") THEN t
    ELSE LET derived == [r \in 1..Len(t.rows) |->
                            DeriveCpa(Cell(t.columns, t.rows[r], "cost"),
                                      Cell(t.columns, t.rows[r], "leads"))]
         IN  IF HasColumn(t.columns, "cpa")
             THEN [columns |-> t.columns,
                   rows |-> [r \in 1..Len(t.rows) |->
                               [t.rows[r] EXCEPT ![ColumnIndex(t.columns, "cpa")] = derived[r]]]]
             ELSE [columns |-> Append(t.columns, "cpa"), rows |-> AddColumn(t.rows, derived)]

WithCpa(t) ==
    IF HasColumn(t.columns, "cost") /\ ~HasColumn(t.columns, "cpa")
    THEN [columns |-> Append(t.columns, "cpa"),
          rows |-> AddColumn(t.rows,
                      [r \in 1..Len(t.rows) |->
                          DeriveCpa(Cell(t.columns, t.rows[r], "cost"),
                                    Cell(t.columns, t.rows[r], "leads"))])]
    ELSE t

----------------------------------------------------------------------------
(* The reporter's computations.                                            *)

RECURSIVE Sum(_)
Sum(vals) == IF Len(vals) = 0 THEN Zero ELSE Add(Head(vals), Sum(Tail(vals)))

DropNa(vals) == SelectSeq(vals, LAMBDA v : ~IsNaN(v))

\* Series.mean(): nulls are skipped; the mean of no value is NaN.
Mean(vals) ==
    IF Len(DropNa(vals)) = 0 THEN NaN
    ELSE Div(Sum(DropNa(vals)), R(Len(DropNa(vals))))

Min(a, b) == IF a < b THEN a ELSE b

\* Whether row j comes before row i when vals is sorted, nulls last and
\* equal values in their original order (keep='first').
Precedes(vals, j, i, ascending) ==
    IF IsNaN(vals[j]) THEN IsNaN(vals[i]) /\ j < i
    ELSE IF IsNaN(vals[i]) THEN TRUE
    ELSE IF vals[j] = vals[i] THEN j < i
    ELSE IF ascending THEN Lt(vals[j], vals[i]) ELSE Lt(vals[i], vals[j])

SortedRows(vals, ascending) ==
    LET n == Len(vals)
        pos(i) == 1 + Cardinality({j \in 1..n : Precedes(vals, j, i, ascending)})
    IN  [k \in 1..n |-> CHOOSE i \in 1..n : pos(i) = k]

NSmallest(n, vals) ==
    IF n <= 0 THEN <<>> ELSE SubSeq(SortedRows(vals, TRUE), 1, Min(n, Len(vals)))

NLargest(n, vals) ==
    IF n <= 0 THEN <<>> ELSE SubSeq(SortedRows(vals, FALSE), 1, Min(n, Len(vals)))

\* The metric is ranked as every other one is: larger is better.
BestRows_LargerIsBetter(metric, n, vals) == NLargest(n, vals)

BestRows(metric, n, vals) ==
    IF metric = "cpa" THEN NSmallest(n, vals) ELSE NLargest(n, vals)

WorstRows(metric, n, vals) ==
    IF metric = "cpa" THEN NLargest(n, vals) ELSE NSmallest(n, vals)

LowCtr == "CTR muy bajo"
LowCvr == "CVR bajo"
HighCpa == "CPA muy alto"
Balanced == "Rendimiento equilibrado"

CtrFactor == Q(3, 5)
CvrFactor == Q(3, 5)
CpaFactor == Q(3, 2)

\* The CTR threshold compared with <= instead of <.
diagnose_row_NotStrict(ctr, cvr, cpa, mean_ctr, mean_cvr, mean_cpa) ==
    LET flagged ==
            (IF ~Gt(ctr, Mul(mean_ctr, CtrFactor)) THEN <<LowCtr>> ELSE <<>>)
            \o (IF Lt(cvr, Mul(mean_cvr, CvrFactor)) THEN <<LowCvr>> ELSE <<>>)
            \o (IF ~IsNaN(cpa) /\ Gt(cpa, Mul(mean_cpa, CpaFactor)) THEN <<HighCpa>> ELSE <<>>)
    IN  IF Len(flagged) = 0 THEN <<Balanced>> ELSE flagged

diagnose_row(ctr, cvr, cpa, mean_ctr, mean_cvr, mean_cpa) ==
    LET flagged ==
            (IF Lt(ctr, Mul(mean_ctr, CtrFactor)) THEN <<LowCtr>> ELSE <<>>)
            \o (IF Lt(cvr, Mul(mean_cvr, CvrFactor)) THEN <<LowCvr>> ELSE <<>>)
            \o (IF ~IsNaN(cpa) /\ Gt(cpa, Mul(mean_cpa, CpaFactor)) THEN <<HighCpa>> ELSE <<>>)
    IN  IF Len(flagged) = 0 THEN <<Balanced>> ELSE flagged

----------------------------------------------------------------------------
(* State shared by the specifications.                                     *)

NoFile == [readable |-> FALSE, columns |-> <<>>, rows |-> <<>>]
NoError == [kind |-> "none", names |-> {}]
NoSummary == [printed |-> FALSE, mean_ctr |-> NaN, mean_cvr |-> NaN,
              has_cpa |-> FALSE, mean_cpa |-> NaN]
NoRanking == [metric |-> "", top_n |-> 0, found |-> FALSE, best |-> <<>>, worst |-> <<>>]
NoDiagnosis == [mean_ctr |-> NaN, mean_cvr |-> NaN, has_cpa |-> FALSE,
                mean_cpa |-> NaN, issues |-> <<>>]

DefaultTopN == 3

----------------------------------------------------------------------------
(* The input files of the model.  A layout is a list of <<header, values>>:*)
(* the file's headers and, per header, the values a cell under it may      *)
(* hold.  Counts include a negative one, which the guards of               *)
(* compute_metrics treat as they treat zero.  No two headers of a layout   *)
(* normalise to the same name.                                             *)

Text == {R(1)}

LayoutFull ==
    << <<"Line item", Text>>, <<"Imps", {R(-1), R(0), R(2)}>>, <<"Clicks", {R(0), R(1)}>>,
       <<"Leads", {R(0), R(1)}>>, <<"Total Cost", {R(3)}>> >>

LayoutNoCost ==
    << <<"Campaign", Text>>, <<"Impressions", {R(0), R(2)}>>, <<"Clicks", {R(-1), R(0), R(1)}>>,
       <<"Applications", {R(0), R(1)}>> >>

LayoutCosts ==
    << <<"Imps", {R(2)}>>, <<"Clicks", {R(0), R(2)}>>, <<"Leads", {R(0), R(1), R(2)}>>,
       <<" Cost ", {R(0), R(3)}>> >>

LayoutGivenCpa ==
    << <<"Puesto", Text>>, <<"Imps", {R(2)}>>, <<"Clicks", {R(1)}>>,
       <<"Candidatos", {R(-1), R(0), R(1)}>>, <<"Gasto Total", {R(0), R(3)}>>,
       <<"CPA", {NaN, R(5)}>> >>

LayoutGivenRates ==
    << <<"Imps", {R(0), R(2)}>>, <<"Clicks", {R(1)}>>, <<"Leads", {R(0), R(1)}>>,
       <<"CTR", {Q(1, 4), Q(1, 2)}>>, <<"cvr", {Q(1, 4)}>>, <<"Notes", Text>> >>

LayoutNoImps ==
    << <<"Campaign", Text>>, <<"Clicks", {R(0), R(1)}>>, <<"Leads", {R(0), R(1)}>>,
       <<"Cost", {R(3)}>> >>

LayoutNoClicksNoLeads ==
    << <<"Imps", {R(0), R(2)}>>, <<"Clics", {R(1)}>>, <<"Notes", Text>> >>

Layouts == {LayoutFull, LayoutNoCost, LayoutCosts, LayoutGivenCpa, LayoutGivenRates,
            LayoutNoImps, LayoutNoClicksNoLeads}

Headers(layout) == [i \in 1..Len(layout) |-> layout[i][1]]

RECURSIVE RowsOf(_)
RowsOf(layout) ==
    IF Len(layout) = 0 THEN {<<>>}
    ELSE {<<v>> \o r : v \in Head(layout)[2], r \in RowsOf(Tail(layout))}

RECURSIVE SeqsUpTo(_, _)
SeqsUpTo(S, n) ==
    IF n = 0 THEN {<<>>}
    ELSE SeqsUpTo(S, n - 1) \cup {Append(q, x) : q \in {t \in SeqsUpTo(S, n - 1) : Len(t) = n - 1}, x \in S}

FilesOf(layouts) ==
    UNION {{[readable |-> TRUE, columns |-> Headers(l), rows |-> rs] :
               rs \in SeqsUpTo(RowsOf(l), MaxRows)} : l \in layouts}

Files == {NoFile} \cup FilesOf(Layouts)

----------------------------------------------------------------------------
(* main() and the functions it calls, one action each.                     *)

Start(f) ==
    /\ pc = "start"
    /\ file = f
    /\ columns = <<>>
    /\ rows = <<>>
    /\ err = NoError
    /\ summary = NoSummary
    /\ ranking = NoRanking
    /\ diagnosis = NoDiagnosis

Init == \E f \in Files : Start(f)

load_data ==
    /\ pc = "start"
    /\ IF file.readable
       THEN /\ columns' = file.columns
            /\ rows' = file.rows
            /\ pc' = "loaded"
            /\ err' = err
       ELSE /\ pc' = "failed"
            /\ err' = [kind |-> "ReadError", names |-> {}]
            /\ UNCHANGED <<columns, rows>>
    /\ UNCHANGED <<file, summary, ranking, diagnosis>>

normalise_columns ==
    /\ pc = "loaded"
    /\ columns' = Rename(columns)
    /\ pc' = "normalised"
    /\ UNCHANGED <<file, rows, err, summary, ranking, diagnosis>>

compute_metrics ==
    /\ pc = "normalised"
    /\ IF MissingRequired(columns)
       THEN /\ pc' = "failed"
            /\ err' = [kind |-> "ValueError", names |-> ValueErrorNames]
            /\ UNCHANGED <<columns, rows>>
       ELSE LET t == WithCpa(WithCvr(WithCtr([columns |-> columns, rows |-> rows])))
            IN  /\ columns' = t.columns
                /\ rows' = t.rows
                /\ pc' = "computed"
                /\ err' = err
    /\ UNCHANGED <<file, summary, ranking, diagnosis>>

print_overall_summary ==
    /\ pc = "computed"
    /\ summary' = [printed |-> TRUE,
                   mean_ctr |-> Mean(Column(columns, rows, "ctr")),
                   mean_cvr |-> Mean(Column(columns, rows, "cvr")),
                   has_cpa |-> HasColumn(columns, "cpa"),
                   mean_cpa |-> IF HasColumn(columns, "cpa")
                                THEN Mean(DropNa(Column(columns, rows, "cpa")))
                                ELSE NaN]
    /\ pc' = "summarised"
    /\ UNCHANGED <<file, columns, rows, err, ranking, diagnosis>>

show_top_bottom(metric, top_n, from, to) ==
    /\ pc = from
    /\ ranking' = IF ~HasColumn(columns, metric)
                  THEN [metric |-> metric, top_n |-> top_n, found |-> FALSE,
                        best |-> <<>>, worst |-> <<>>]
                  ELSE [metric |-> metric, top_n |-> top_n, found |-> TRUE,
                        best |-> BestRows(metric, top_n, Column(columns, rows, metric)),
                        worst |-> WorstRows(metric, top_n, Column(columns, rows, metric))]
    /\ pc' = to
    /\ UNCHANGED <<file, columns, rows, err, summary, diagnosis>>

show_top_bottom_ctr == show_top_bottom("ctr", DefaultTopN, "summarised", "ranked_ctr")

show_top_bottom_cvr == show_top_bottom("cvr", DefaultTopN, "ranked_ctr", "ranked_cvr")

show_top_bottom_cpa ==
    /\ HasColumn(columns, "cpa")
    /\ show_top_bottom("cpa", DefaultTopN, "ranked_cvr", "ranked_cpa")

print_detailed_recommendations ==
    /\ \/ pc = "ranked_cpa"
       \/ pc = "ranked_cvr" /\ ~HasColumn(columns, "cpa")
    /\ LET mean_ctr == Mean(Column(columns, rows, "ctr"))
           mean_cvr == Mean(Column(columns, rows, "cvr"))
           has_cpa == HasColumn(columns, "cpa")
           mean_cpa == IF has_cpa THEN Mean(DropNa(Column(columns, rows, "cpa"))) ELSE NaN
       IN  IF Len(rows) > 0 /\ ~has_cpa
           THEN \* row['cpa'] on a row that has no such label
                /\ pc' = "failed"
                /\ err' = [kind |-> "KeyError", names |-> {"cpa"}]
                /\ diagnosis' = diagnosis
           ELSE /\ pc' = "done"
                /\ err' = err
                /\ diagnosis' =
                       [mean_ctr |-> mean_ctr, mean_cvr |-> mean_cvr,
                        has_cpa |-> has_cpa, mean_cpa |-> mean_cpa,
                        issues |-> [r \in 1..Len(rows) |->
                                       diagnose_row(Cell(columns, rows[r], "ctr"),
                                                    Cell(columns, rows[r], "cvr"),
                                                    Cell(columns, rows[r], "cpa"),
                                                    mean_ctr, mean_cvr, mean_cpa)]]
    /\ UNCHANGED <<file, columns, rows, summary, ranking>>

Next ==
    \/ load_data
    \/ normalise_columns
    \/ compute_metrics
    \/ print_overall_summary
    \/ show_top_bottom_ctr
    \/ show_top_bottom_cvr
    \/ show_top_bottom_cpa
    \/ print_detailed_recommendations

Spec == Init /\ [][Next]_vars

----------------------------------------------------------------------------
(* normalise_columns on its own: header lists drawn from a pool, the       *)
(* function applied, and applied once more to its own output.              *)

HeaderPool ==
    {"Line item", "Puesto", "Impressions", "Importe total",
     "Cost per click", "Applications", "Candidatos",
     "Total Cost", "Cost Total", "Gasto Total", " Cost ", "COSTO", "Costos", "Gasto",
     " cvr", "CPA", "CTR %", "Notes",
     "campaign", "imps", "clicks", "leads", "cost", "ctr", "cvr", "cpa"}

HeaderLists == {hs \in SeqsUpTo(HeaderPool, MaxHeaders) : Len(hs) > 0}

InitNorm ==
    \E hs \in HeaderLists :
        /\ pc = "loaded"
        /\ file = [readable |-> TRUE, columns |-> hs, rows |-> <<>>]
        /\ columns = hs
        /\ rows = <<>>
        /\ err = NoError
        /\ summary = NoSummary
        /\ ranking = NoRanking
        /\ diagnosis = NoDiagnosis

normalise_columns_again ==
    /\ pc = "normalised"
    /\ columns' = Rename(columns)
    /\ pc' = "renormalised"
    /\ UNCHANGED <<file, rows, err, summary, ranking, diagnosis>>

NextNorm ==
    \/ normalise_columns
    \/ normalise_columns_again

SpecNorm == InitNorm /\ [][NextNorm]_vars

----------------------------------------------------------------------------
(* show_top_bottom on its own: called with any metric name and any N on    *)
(* the table main() has computed.                                          *)

LayoutRanked ==
    << <<"Campaign", Text>>, <<"Imps", {R(2)}>>, <<"Clicks", {R(0), R(1), R(2)}>>,
       <<"Leads", {R(0), R(1), R(3)}>>, <<"Cost", {R(3)}>> >>

RankMetrics == {"ctr", "cvr", "cpa", "leads", "roas"}

InitRank == \E f \in FilesOf({LayoutRanked}) : Start(f)

show_top_bottom_call ==
    \E metric \in RankMetrics, top_n \in 0..DefaultTopN :
        show_top_bottom(metric, top_n, "computed", "ranked")

NextRank ==
    \/ load_data
    \/ normalise_columns
    \/ compute_metrics
    \/ show_top_bottom_call

SpecRank == InitRank /\ [][NextRank]_vars

----------------------------------------------------------------------------
(* diagnose_row on its own: one row and the three means, drawn from sets   *)
(* that hold values below, at and above each threshold.                    *)

DiagRates == {Zero, Q(3, 10), Q(1, 2)}
DiagMeanRates == {Zero, Q(1, 2), R(1)}
DiagCpas == {NaN, R(3), R(4)}
DiagMeanCpas == {NaN, R(2), R(3)}

InitDiag ==
    \E ctr \in DiagRates, cvr \in DiagRates, cpa \in DiagCpas,
       mean_ctr \in DiagMeanRates, mean_cvr \in DiagMeanRates, mean_cpa \in DiagMeanCpas :
        /\ pc = "diagnose"
        /\ file = NoFile
        /\ columns = <<"ctr", "cvr", "cpa">>
        /\ rows = << <<ctr, cvr, cpa>> >>
        /\ err = NoError
        /\ summary = NoSummary
        /\ ranking = NoRanking
        /\ diagnosis = [mean_ctr |-> mean_ctr, mean_cvr |-> mean_cvr, has_cpa |-> TRUE,
                        mean_cpa |-> mean_cpa, issues |-> <<>>]

diagnose_row_call ==
    /\ pc = "diagnose"
    /\ diagnosis' = [diagnosis EXCEPT !.issues =
                        <<diagnose_row(Cell(columns, rows[1], "ctr"),
                                       Cell(columns, rows[1], "cvr"),
                                       Cell(columns, rows[1], "cpa"),
                                       diagnosis.mean_ctr, diagnosis.mean_cvr,
                                       diagnosis.mean_cpa)>>]
    /\ pc' = "diagnosed"
    /\ UNCHANGED <<file, columns, rows, err, summary, ranking>>

NextDiag == diagnose_row_call

SpecDiag == InitDiag /\ [][NextDiag]_vars

----------------------------------------------------------------------------
(* Properties.                                                             *)

Required == {"imps", "clicks", "leads"}

\* compute_metrics has run and returned the table.
Computed == pc \in {"computed", "summarised", "ranked_ctr", "ranked_cvr", "ranked_cpa", "done"}
            \/ (pc = "failed" /\ err.kind = "KeyError")

\* The column was added by compute_metrics: the file had no such column.
Derived(name) == HasColumn(columns, name) /\ ColumnIndex(columns, name) > Len(file.columns)
Given(name) == HasColumn(columns, name) /\ ColumnIndex(columns, name) <= Len(file.columns)

Num(v) == v[1]
Den(v) == v[2]

\* v = a/b for integers a and b # 0, stated without division.
IsRatio(v, a, b) == IsFinite(v) /\ Num(v) * b = a * Den(v)

\* C1: when compute_metrics derives ctr (cvr), every row has ctr = 0 if imps <= 0
\* and ctr = clicks/imps otherwise (cvr = 0 if clicks <= 0 and leads/clicks
\* otherwise), and the value is a finite number: never NaN, never infinite.
C1_DerivedRates ==
    Computed =>
        \A r \in 1..Len(rows) :
            LET imps == Num(Cell(columns, rows[r], "imps"))
                clicks == Num(Cell(columns, rows[r], "clicks"))
                leads == Num(Cell(columns, rows[r], "leads"))
            IN  /\ Derived("ctr") =>
                       LET ctr == Cell(columns, rows[r], "ctr")
                       IN  /\ IsFinite(ctr)
                           /\ IF imps <= 0 THEN ctr = Zero ELSE IsRatio(ctr, clicks, imps)
                /\ Derived("cvr") =>
                       LET cvr == Cell(columns, rows[r], "cvr")
                       IN  /\ IsFinite(cvr)
                           /\ IF clicks <= 0 THEN cvr = Zero ELSE IsRatio(cvr, leads, clicks)

\* C1's case: both rates derived; a row whose division had a zero denominator
\* and a non-zero numerator, for each rate, and a row with a proper ratio.
C1_Witness ==
    /\ pc = "computed"
    /\ Derived("ctr") /\ Derived("cvr")
    /\ \E r \in 1..Len(rows) :
          /\ Num(Cell(columns, rows[r], "imps")) = 0
          /\ Num(Cell(columns, rows[r], "clicks")) > 0
          /\ Cell(columns, rows[r], "ctr") = Zero
    /\ \E r \in 1..Len(rows) :
          /\ Num(Cell(columns, rows[r], "clicks")) = 0
          /\ Num(Cell(columns, rows[r], "leads")) > 0
          /\ Cell(columns, rows[r], "cvr") = Zero
          /\ Cell(columns, rows[r], "ctr") = Zero
          /\ Num(Cell(columns, rows[r], "imps")) > 0

\* The mean over exactly the non-null values of vals: NaN (no mean) when
\* there is none, and otherwise the m with  m * count = sum.
IsMeanOfNonNull(m, vals) ==
    LET nonnull == SelectSeq(vals, LAMBDA v : v # NaN)
    IN  IF Len(nonnull) = 0 THEN m = NaN
        ELSE IsFinite(m) /\ Mul(m, R(Len(nonnull))) = Sum(nonnull)

\* C2: when compute_metrics derives cpa, every row with leads <= 0 has cpa = null
\* (not 0) and every row with leads > 0 has cpa = cost/leads; the mean cpa of the
\* overall summary and of the per-row diagnosis is the mean over exactly the rows
\* whose cpa is non-null.
C2_DerivedCpaAndMean ==
    /\ (Computed /\ Derived("cpa")) =>
           \A r \in 1..Len(rows) :
               LET leads == Num(Cell(columns, rows[r], "leads"))
                   cost == Num(Cell(columns, rows[r], "cost"))
                   cpa == Cell(columns, rows[r], "cpa")
               IN  IF leads <= 0 THEN cpa = NaN ELSE IsRatio(cpa, cost, leads)
    /\ (summary.printed /\ HasColumn(columns, "cpa")) =>
           /\ summary.has_cpa
           /\ IsMeanOfNonNull(summary.mean_cpa, Column(columns, rows, "cpa"))
    /\ (pc = "done" /\ HasColumn(columns, "cpa")) =>
           /\ diagnosis.has_cpa
           /\ IsMeanOfNonNull(diagnosis.mean_cpa, Column(columns, rows, "cpa"))

\* C2's case: cpa derived, a row without leads (cpa null), a row with leads and
\* a cpa above 0, and both reports made.
C2_Witness ==
    /\ pc = "done"
    /\ Derived("cpa")
    /\ \E r \in 1..Len(rows) :
          /\ Num(Cell(columns, rows[r], "leads")) = 0
          /\ Cell(columns, rows[r], "cpa") = NaN
    /\ \E r \in 1..Len(rows) :
          /\ Num(Cell(columns, rows[r], "leads")) > 0
          /\ Gt(Cell(columns, rows[r], "cpa"), Zero)
    /\ summary.mean_cpa = diagnosis.mean_cpa
    /\ Gt(summary.mean_cpa, Zero)

MissingColumns == {c \in Required : ~HasColumn(columns, c)}

\* compute_metrics has been called (it returned or it raised).
ComputeCalled == pc \notin {"start", "loaded", "normalised"} /\ err.kind # "ReadError"

\* C3 as stated: compute_metrics fails with a validation error iff a required
\* column is absent, the error names the columns that are missing, and on the
\* failure no column has been added.
C3_Original ==
    ComputeCalled =>
        /\ (err.kind = "ValueError") <=> (MissingColumns # {})
        /\ (err.kind = "ValueError") =>
               /\ err.names = MissingColumns
               /\ Len(columns) = Len(file.columns)
               /\ rows = file.rows

\* C3, amended: compute_metrics fails with a validation error iff a required
\* column is absent; the error's message is fixed and spells out all three
\* required names, whichever of them is missing; on the failure no column has
\* been added.
C3_Amended ==
    ComputeCalled =>
        /\ (err.kind = "ValueError") <=> (MissingColumns # {})
        /\ (err.kind = "ValueError") =>
               /\ err.names = Required
               /\ Len(columns) = Len(file.columns)
               /\ rows = file.rows
               /\ \A c \in {"ctr", "cvr", "cpa"} : ~HasColumn(columns, c)

\* C3's case: the validation error raised for a table that lacks one required
\* column and has the other two.
C3_Witness ==
    /\ pc = "failed"
    /\ err.kind = "ValueError"
    /\ MissingColumns = {"imps"}
    /\ Len(rows) > 0

\* C4 as stated: a run fails only on a loader error or on the missing-column
\* validation error; every loaded table with imps, clicks and leads, with or
\* without a cost or cpa column, is processed to the end.
C4_OnlyTwoFatalOutcomes ==
    pc = "failed" =>
        \/ ~file.readable /\ err.kind = "ReadError"
        \/ MissingColumns # {} /\ err.kind = "ValueError"

\* C5: normalising the output of normalise_columns changes no header, and each
\* canonical name is mapped to itself.
C5_Idempotent ==
    /\ [][(pc = "normalised" /\ pc' = "renormalised") => columns' = columns]_vars
    /\ [](pc \in {"normalised", "renormalised"} =>
             \A i \in 1..Len(columns) :
                 file.columns[i] \in CanonicalNames => columns[i] = file.columns[i])

\* C5's case: a list that the first pass renamed, holding a canonical name too,
\* has been normalised twice.
C5_Witness ==
    /\ pc = "renormalised"
    /\ \E i \in 1..Len(columns) : columns[i] # file.columns[i]
    /\ \E i \in 1..Len(columns) : file.columns[i] \in CanonicalNames

MatchesEarlierRule(low) ==
    IsCampaignHeader(low) \/ IsImpsHeader(low) \/ IsClicksHeader(low) \/ IsLeadsHeader(low)

CostRuleAsStated(low) ==
    \/ In("total cost", low)
    \/ (In("cost", low) /\ In("total", low))
    \/ low \in {"cost", "costo"}

CostRuleAmended(low) ==
    \/ In("total cost", low)
    \/ (In("cost", low) /\ In("total", low))
    \/ (In("gasto", low) /\ In("total", low))
    \/ low \in {"cost", "costo"}

\* C6 as stated: a header that no campaign/imps/clicks/leads rule matched maps to
\* cost iff it contains "total cost", or "cost" and "total", or is exactly
\* "cost" or "costo"; a header that matches no rule keeps its name.
C6_Original ==
    pc = "normalised" =>
        \A i \in 1..Len(columns) :
            LET low == Low(file.columns[i])
            IN  ~MatchesEarlierRule(low) =>
                    /\ (columns[i] = "cost") <=> CostRuleAsStated(low)
                    /\ (~CostRuleAsStated(low) /\ low \notin {"ctr", "cvr", "cpa"})
                           => columns[i] = file.columns[i]

\* C6, amended: a header that no campaign/imps/clicks/leads rule matched maps to
\* cost iff it contains "total cost", or "total" together with "cost" or with
\* "gasto", or is exactly "cost" or "costo"; a header that matches no rule
\* keeps its name.
C6_Amended ==
    pc = "normalised" =>
        \A i \in 1..Len(columns) :
            LET low == Low(file.columns[i])
            IN  ~MatchesEarlierRule(low) =>
                    /\ (columns[i] = "cost") <=> CostRuleAmended(low)
                    /\ (~CostRuleAmended(low) /\ low \notin {"ctr", "cvr", "cpa"})
                           => columns[i] = file.columns[i]

\* C6's case: a "gasto ... total" header mapped to cost, beside a header that
\* matched no rule and kept its name.
C6_Witness ==
    /\ pc = "normalised"
    /\ \E i \in 1..Len(columns) :
          /\ In("gasto", Low(file.columns[i]))
          /\ ~In("cost", Low(file.columns[i]))
          /\ columns[i] = "cost"
    /\ \E i \in 1..Len(columns) :
          /\ columns[i] \notin CanonicalNames
          /\ columns[i] = file.columns[i]

Listed(list) == {list[k] : k \in 1..Len(list)}

\* The rows of list are Min(n, number of rows) distinct rows, and no row left
\* out has a value that would rank before a listed one; a null ranks last.
IsSelection(list, vals, n, smallest) ==
    /\ Len(list) = (IF n < Len(vals) THEN n ELSE Len(vals))
    /\ Cardinality(Listed(list)) = Len(list)
    /\ Listed(list) \subseteq 1..Len(vals)
    /\ \A a \in Listed(list), b \in (1..Len(vals)) \ Listed(list) :
          vals[b] # NaN =>
              /\ vals[a] # NaN
              /\ IF smallest THEN ~Lt(vals[b], vals[a]) ELSE ~Lt(vals[a], vals[b])

\* C7: show_top_bottom with metric "cpa" and N lists as best the N rows with the
\* smallest cpa and as worst the N rows with the largest; with any other metric
\* of the table, best are the N largest and worst the N smallest; with a metric
\* that is no column it lists nothing, reports "not found" and raises nothing.
\* (N rows: all the rows when the table has fewer; a null value ranks last.)
C7_TopBottom ==
    pc = "ranked" =>
        LET metric == ranking.metric
        IN  IF ~HasColumn(columns, metric)
            THEN ~ranking.found /\ ranking.best = <<>> /\ ranking.worst = <<>>
                 /\ err = NoError
            ELSE LET vals == Column(columns, rows, metric)
                 IN  /\ ranking.found
                     /\ err = NoError
                     /\ IsSelection(ranking.best, vals, ranking.top_n, metric = "cpa")
                     /\ IsSelection(ranking.worst, vals, ranking.top_n, metric # "cpa")

\* C7's case: cpa ranked with N below the number of rows, the rows' cpa
\* different, so that best and worst are different rows.
C7_Witness ==
    /\ pc = "ranked"
    /\ ranking.metric = "cpa"
    /\ ranking.found
    /\ ranking.top_n = 1
    /\ Len(rows) > 1
    /\ Lt(Cell(columns, rows[ranking.best[1]], "cpa"),
          Cell(columns, rows[ranking.worst[1]], "cpa"))

Issues == diagnosis.issues[1]
HasIssue(issue) == \E k \in 1..Len(Issues) : Issues[k] = issue

\* a/b < (p/q) * mean, for a finite mean; False for a NaN mean.
BelowFactor(v, p, q, mean) ==
    IsFinite(v) /\ IsFinite(mean) /\ q * Num(v) * Den(mean) < p * Num(mean) * Den(v)
AboveFactor(v, p, q, mean) ==
    IsFinite(v) /\ IsFinite(mean) /\ q * Num(v) * Den(mean) > p * Num(mean) * Den(v)

\* C8: diagnose_row flags low CTR iff ctr < 0.6 * mean_ctr (strictly), low CVR
\* iff cvr < 0.6 * mean_cvr, high CPA iff cpa is non-null and cpa > 1.5 *
\* mean_cpa; the list is never empty, and holds the "balanced" note, alone, iff
\* none of the three flags fired.
C8_Diagnosis ==
    pc = "diagnosed" =>
        LET ctr == Cell(columns, rows[1], "ctr")
            cvr == Cell(columns, rows[1], "cvr")
            cpa == Cell(columns, rows[1], "cpa")
        IN  /\ HasIssue(LowCtr) <=> BelowFactor(ctr, 3, 5, diagnosis.mean_ctr)
            /\ HasIssue(LowCvr) <=> BelowFactor(cvr, 3, 5, diagnosis.mean_cvr)
            /\ HasIssue(HighCpa) <=> (cpa # NaN /\ AboveFactor(cpa, 3, 2, diagnosis.mean_cpa))
            /\ Len(Issues) > 0
            /\ HasIssue(Balanced) <=>
                   ~(HasIssue(LowCtr) \/ HasIssue(LowCvr) \/ HasIssue(HighCpa))
            /\ HasIssue(Balanced) => Issues = <<Balanced>>

\* C8's case: ctr exactly at 0.6 * mean_ctr and cpa exactly at 1.5 * mean_cpa,
\* neither flagged, the row reported balanced.
C8_Witness ==
    /\ pc = "diagnosed"
    /\ Cell(columns, rows[1], "ctr") = Q(3, 10)
    /\ diagnosis.mean_ctr = Q(1, 2)
    /\ Cell(columns, rows[1], "cpa") = R(3)
    /\ diagnosis.mean_cpa = R(2)
    /\ Issues = <<Balanced>>

\* C9 as stated: after compute_metrics has returned, whatever the input table,
\* one that already carries a cpa column included, every row with leads = 0
\* has cpa = null.
C9_Original ==
    (Computed /\ HasColumn(columns, "cpa")) =>
        \A r \in 1..Len(rows) :
            Num(Cell(columns, rows[r], "leads")) = 0 => Cell(columns, rows[r], "cpa") = NaN

\* C9, amended: after compute_metrics has returned, for any input table that
\* carries no cpa column of its own (so that cpa, if the table has it, was
\* derived), every row with leads = 0 has cpa = null.
C9_Amended ==
    (Computed /\ ~Given("cpa") /\ HasColumn(columns, "cpa")) =>
        \A r \in 1..Len(rows) :
            Num(Cell(columns, rows[r], "leads")) = 0 => Cell(columns, rows[r], "cpa") = NaN

\* C9's case: a table with a cost above 0 and no cpa of its own, a row of it
\* without leads, after the whole run.
C9_Witness ==
    /\ pc = "done"
    /\ ~Given("cpa")
    /\ \E r \in 1..Len(rows) :
          /\ Num(Cell(columns, rows[r], "leads")) = 0
          /\ Num(Cell(columns, rows[r], "cost")) > 0
          /\ Cell(columns, rows[r], "cpa") = NaN

ReporterAt == {"computed", "summarised", "ranked_ctr", "ranked_cvr", "ranked_cpa"}

\* C10: compute_metrics only adds columns named ctr, cvr or cpa, each only when
\* the table has none of that name, and leaves every cell the table had
\* unchanged; the reporter's operations leave the whole table unchanged.
C10_Frame ==
    [][/\ pc = "normalised" =>
             /\ Len(rows') = Len(rows)
             /\ Len(columns') >= Len(columns)
             /\ SubSeq(columns', 1, Len(columns)) = columns
             /\ \A r \in 1..Len(rows) : SubSeq(rows'[r], 1, Len(columns)) = rows[r]
             /\ \A i \in (Len(columns) + 1)..Len(columns') :
                   /\ columns'[i] \in {"ctr", "cvr", "cpa"}
                   /\ ~HasColumn(columns, columns'[i])
       /\ pc \in ReporterAt => (columns' = columns /\ rows' = rows)
      ]_vars

\* C10's case: a table that came with a cpa column whose values are not
\* cost/leads, and with a cost column, after the whole run.
C10_Witness ==
    /\ pc = "done"
    /\ Given("cpa")
    /\ HasColumn(columns, "cost")
    /\ \E r \in 1..Len(rows) :
          /\ Num(Cell(columns, rows[r], "leads")) > 0
          /\ ~IsRatio(Cell(columns, rows[r], "cpa"),
                      Num(Cell(columns, rows[r], "cost")),
                      Num(Cell(columns, rows[r], "leads")))

=============================================================================
